---- MODULE Spec2Model ----
(***************************************************************************)
(* Model of src/src/App.jsx: the text helpers (normalizeText, splitLines,  *)
(* extractByRegexList, dotLeaderExtract, twoColumnExtract), the template   *)
(* classifier, the two schema parsers and the handleFiles orchestrator.    *)
(*                                                                         *)
(* A JavaScript string is a sequence of characters; a character is a       *)
(* one-character TLA+ string, except the non-breaking space U+00A0         *)
(* ("nbsp") and the bullet glyph U+2022 ("bullet").  JavaScript null is    *)
(* the value Null.                                                         *)
(***************************************************************************)
EXTENDS Integers, Sequences, FiniteSets, TLC

VARIABLES
    pc,        \* position of the pure-function harness
    text,      \* input text of the pure-function harness
    label,     \* label argument of dotLeaderExtract / twoColumnExtract
    regexes,   \* pattern-list argument of extractByRegexList
    out,       \* result of the first call
    out2,      \* result of the second call, where there is one
    loading,   \* React state `loading`
    results,   \* React state `results`
    runs       \* the handleFiles invocations in flight

vars == <<pc, text, label, regexes, out, out2, loading, results, runs>>

(***************************************************************************)
(* Characters                                                              *)
(***************************************************************************)
Null == <<"NULL">>

UpperLetters ==
    <<"A","B","C","D","E","F","G","H","I","J","K","L","M",
      "N","O","P","Q","R","S","T","U","V","W","X","Y","Z">>
LowerLetters ==
    <<"a","b","c","d","e","f","g","h","i","j","k","l","m",
      "n","o","p","q","r","s","t","u","v","w","x","y","z">>

Range(f) == {f[i] : i \in DOMAIN f}

Upper == Range(UpperLetters)
Lower == Range(LowerLetters)
Letter == Upper \cup Lower
Digit == {"0","1","2","3","4","5","6","7","8","9"}

\* What String.prototype.trim strips and what \s matches.
WhiteSpace == {" ", "\t", "\n", "\r", "\f", "nbsp"}
\* [^\S\r\n]: whitespace other than CR and LF.
HSpace == WhiteSpace \ {"\r", "\n"}

Punct == {".", ":", "_", "-", ",", "'", "/", "(", ")", "+", "%", "|", "bullet"}
AllChars == Letter \cup Digit \cup WhiteSpace \cup Punct

toLowerChar(c) ==
    IF c \in Upper
    THEN LowerLetters[CHOOSE i \in DOMAIN UpperLetters : UpperLetters[i] = c]
    ELSE c
toUpperChar(c) ==
    IF c \in Lower
    THEN UpperLetters[CHOOSE i \in DOMAIN LowerLetters : LowerLetters[i] = c]
    ELSE c

toLowerCase(s) == [i \in 1..Len(s) |-> toLowerChar(s[i])]

\* s.slice(n): the string without its first n characters.
Drop(s, n) == SubSeq(s, n + 1, Len(s))

\* Number of leading characters of s that lie in the class S.
RECURSIVE RunLen(_, _)
RunLen(s, S) ==
    IF s = <<>> \/ Head(s) \notin S THEN 0 ELSE 1 + RunLen(Tail(s), S)

\* String.prototype.includes
includes(s, w) ==
    \E i \in 0..(Len(s) - Len(w)) : SubSeq(s, i + 1, i + Len(w)) = w

\* String.prototype.trim
RECURSIVE trimStart(_)
trimStart(s) ==
    IF s # <<>> /\ Head(s) \in WhiteSpace THEN trimStart(Tail(s)) ELSE s
RECURSIVE trimEnd(_)
trimEnd(s) ==
    IF s # <<>> /\ s[Len(s)] \in WhiteSpace
    THEN trimEnd(SubSeq(s, 1, Len(s) - 1))
    ELSE s
trim(s) == trimEnd(trimStart(s))

\* filter(Boolean) on an array of strings: drops the empty strings.
RECURSIVE filterBoolean(_)
filterBoolean(a) ==
    IF a = <<>> THEN <<>>
    ELSE IF Head(a) = <<>> THEN filterBoolean(Tail(a))
    ELSE <<Head(a)>> \o filterBoolean(Tail(a))

mapTrim(a) == [i \in 1..Len(a) |-> trim(a[i])]

(***************************************************************************)
(* normalizeText                                                           *)
(***************************************************************************)
replaceChar(s, from, to) ==
    [i \in 1..Len(s) |-> IF s[i] \in from THEN to ELSE s[i]]

\* .replace(/[^\S\r\n]+/g, " ")
RECURSIVE collapseHSpace(_)
collapseHSpace(s) ==
    IF s = <<>> THEN <<>>
    ELSE IF Head(s) \in HSpace
         THEN <<" ">> \o collapseHSpace(Drop(s, RunLen(s, HSpace)))
         ELSE <<Head(s)>> \o collapseHSpace(Tail(s))

\* .replace(/\.{2,}/g, " ... ")
RECURSIVE replaceDotRuns(_)
replaceDotRuns(s) ==
    IF s = <<>> THEN <<>>
    ELSE IF RunLen(s, {"."}) >= 2
         THEN <<" ", ".", ".", ".", " ">> \o replaceDotRuns(Drop(s, RunLen(s, {"."})))
         ELSE <<Head(s)>> \o replaceDotRuns(Tail(s))

normalizeText(s) ==
    LET s1 == replaceChar(s, {"\r"}, "\n")
        s2 == replaceChar(s1, {"\t"}, " ")
        s3 == replaceChar(s2, {"nbsp"}, " ")
        s4 == replaceChar(s3, {"bullet"}, ".")
        s5 == collapseHSpace(s4)
        s6 == replaceDotRuns(s5)
    IN  trim(s6)

(***************************************************************************)
(* splitLines                                                              *)
(***************************************************************************)
\* String.prototype.split on a separator regex whose matches are the
\* maximal runs of at least `min` characters of the class S: the pieces
\* between the matches, empty pieces included.
RECURSIVE splitOnRuns(_, _, _, _)
splitOnRuns(s, S, min, cur) ==
    IF s = <<>> THEN <<cur>>
    ELSE IF RunLen(s, S) >= min
         THEN <<cur>> \o splitOnRuns(Drop(s, RunLen(s, S)), S, min, <<>>)
         ELSE splitOnRuns(Tail(s), S, min, Append(cur, Head(s)))

splitLines_noFilter(t) == mapTrim(splitOnRuns(t, {"\n"}, 1, <<>>))

splitLines(t) == filterBoolean(mapTrim(splitOnRuns(t, {"\n"}, 1, <<>>)))

(***************************************************************************)
(* Regular expressions                                                     *)
(*                                                                         *)
(* A pattern is a sequence of alternatives tried in order at each start    *)
(* position (a top-level `|`, or a group `(?:a|b)` / `(?:a)?` expanded in  *)
(* its backtracking order).  An alternative is a sequence of nodes, each a *)
(* greedy repetition {min,max} of a character class (max = -1: no upper    *)
(* limit; a literal is a class of its two cases, all patterns carry the i  *)
(* flag), with the span of nodes that makes up capture group 1 (capFrom =  *)
(* 0: the group does not take part in the alternative).                    *)
(***************************************************************************)
Undefined == <<"UNDEFINED">>
Fail == <<-1>>

Rep(cls, min, max) == <<[kind |-> "cls", cls |-> cls, min |-> min, max |-> max]>>
Star(cls) == Rep(cls, 0, -1)
Plus(cls) == Rep(cls, 1, -1)
Opt(cls) == Rep(cls, 0, 1)
Lit(w) == [i \in 1..Len(w) |->
             [kind |-> "cls", cls |-> {toLowerChar(w[i]), toUpperChar(w[i])},
              min |-> 1, max |-> 1]]
\* (?:\n|$)
NlOrEnd == <<[kind |-> "nlOrEnd", cls |-> {}, min |-> 0, max |-> 0]>>

Alt(pre, cap, post) ==
    [nodes |-> pre \o cap \o post, capFrom |-> Len(pre) + 1, capTo |-> Len(pre) + Len(cap)]
AltNoGroup(nodes) == [nodes |-> nodes, capFrom |-> 0, capTo |-> 0]

\* The backtracking matcher: node k onwards against s from offset pos.
\* Fail, or the offsets reached after each of the nodes k..Len(nodes).
RECURSIVE matchFrom(_, _, _, _)
RECURSIVE tryCount(_, _, _, _, _)
matchFrom(nodes, k, s, pos) ==
    IF k > Len(nodes) THEN <<>>
    ELSE IF nodes[k].kind = "nlOrEnd"
    THEN LET to == IF pos < Len(s) /\ s[pos + 1] = "\n" THEN pos + 1 ELSE pos
             r == matchFrom(nodes, k + 1, s, to)
         IN  IF (to = pos /\ pos # Len(s)) \/ r = Fail THEN Fail ELSE <<to>> \o r
    ELSE LET avail == RunLen(Drop(s, pos), nodes[k].cls)
             hi == IF nodes[k].max >= 0 /\ nodes[k].max < avail
                   THEN nodes[k].max ELSE avail
         IN  IF hi < nodes[k].min THEN Fail ELSE tryCount(nodes, k, s, pos, hi)
tryCount(nodes, k, s, pos, n) ==
    LET r == matchFrom(nodes, k + 1, s, pos + n)
    IN  IF r # Fail THEN <<pos + n>> \o r
        ELSE IF n > nodes[k].min THEN tryCount(nodes, k, s, pos, n - 1)
        ELSE Fail

NoMatch == [found |-> FALSE, index |-> -1, g1 |-> Undefined]

SetMin(S) == CHOOSE x \in S : \A y \in S : x <= y

\* String.prototype.match with a non-global pattern: the leftmost match
\* (at its start, the first alternative that matches), with its group 1
\* (Undefined when the group took no part).
match(s, regex) ==
    LET altsAt(p) == {a \in 1..Len(regex) : matchFrom(regex[a].nodes, 1, s, p) # Fail}
        starts == {p \in 0..Len(s) : altsAt(p) # {}}
        pos == SetMin(starts)
        a == SetMin(altsAt(pos))
        r == matchFrom(regex[a].nodes, 1, s, pos)
        from == regex[a].capFrom
        start == IF from = 1 THEN pos ELSE r[from - 1]
    IN  IF starts = {} THEN NoMatch
        ELSE [found |-> TRUE, index |-> pos,
              g1 |-> IF from = 0 THEN Undefined
                     ELSE SubSeq(s, start + 1, r[regex[a].capTo])]

\* JavaScript truthiness of a string-or-null-or-undefined value.
Truthy(v) == v # Null /\ v # Undefined /\ v # <<>>

(***************************************************************************)
(* Label-value extractors                                                  *)
(***************************************************************************)
\* Returns the capture of the last pattern that matches.
RECURSIVE extractByRegexList_lastWins(_, _)
extractByRegexList_lastWins(s, rs) ==
    IF ~Truthy(s) \/ rs = <<>> THEN Null
    ELSE LET m == match(s, rs[Len(rs)])
         IN  IF m.found /\ Truthy(m.g1) THEN trim(m.g1)
             ELSE extractByRegexList_lastWins(s, SubSeq(rs, 1, Len(rs) - 1))

RECURSIVE extractByRegexList(_, _)
extractByRegexList(s, rs) ==
    IF ~Truthy(s) \/ rs = <<>> THEN Null
    ELSE LET m == match(s, Head(rs))
         IN  IF m.found /\ Truthy(m.g1) THEN trim(m.g1)
             ELSE extractByRegexList(s, Tail(rs))

MaxValueLen == 120
LeaderDots == 3
LeaderSpaces == 4
ColumnSpaces == 6

\* [\s\.\:_-]
LeaderClass == WhiteSpace \cup {".", ":", "_", "-"}

\* The pieces of a label at its `|` characters.
RECURSIVE splitOnBar(_, _)
splitOnBar(w, cur) ==
    IF w = <<>> THEN <<cur>>
    ELSE IF Head(w) = "|" THEN <<cur>> \o splitOnBar(Tail(w), <<>>)
    ELSE splitOnBar(Tail(w), Append(cur, Head(w)))

\* new RegExp(label + "[\\s\\.\\:_-]{1,}([^\\n]{1,120})", "i"): the label is
\* pattern source, so a `|` in it starts a new alternative and only the
\* last alternative carries the leader and the group.
labelRegex(lbl) ==
    LET ps == splitOnBar(lbl, <<>>)
    IN  [i \in 1..Len(ps) |->
           IF i < Len(ps) THEN AltNoGroup(Lit(ps[i]))
           ELSE Alt(Lit(ps[i]) \o Plus(LeaderClass),
                    Rep(AllChars \ {"\n"}, 1, MaxValueLen), <<>>)]

\* line.split(/\.{3,}|\s{n,}/).map((p) => p.trim()).filter(Boolean)
RECURSIVE splitOnGaps(_, _, _)
splitOnGaps(s, n, cur) ==
    IF s = <<>> THEN <<cur>>
    ELSE IF RunLen(s, {"."}) >= LeaderDots
    THEN <<cur>> \o splitOnGaps(Drop(s, RunLen(s, {"."})), n, <<>>)
    ELSE IF RunLen(s, WhiteSpace) >= n
    THEN <<cur>> \o splitOnGaps(Drop(s, RunLen(s, WhiteSpace)), n, <<>>)
    ELSE splitOnGaps(Tail(s), n, Append(cur, Head(s)))

gapParts(line, n) == filterBoolean(mapTrim(splitOnGaps(line, n, <<>>)))

hasLabel(s, lbl) == includes(toLowerCase(s), toLowerCase(lbl))

\* The line scan of dotLeaderExtract (lines 111-121).
RECURSIVE leaderScan(_, _)
leaderScan(lines, lbl) ==
    IF lines = <<>> THEN Null
    ELSE LET parts == gapParts(Head(lines), LeaderSpaces)
         IN  IF hasLabel(Head(lines), lbl) /\ Len(parts) >= 2 /\ hasLabel(parts[1], lbl)
             THEN parts[2]
             ELSE IF hasLabel(Head(lines), lbl) /\ Len(parts) >= 2 /\ hasLabel(parts[2], lbl)
             THEN parts[1]
             ELSE leaderScan(Tail(lines), lbl)

\* The leader class without the period: a dot leader is captured as part
\* of the value.
dotLeaderExtract_noDotLeader(s, lbl) ==
    IF ~Truthy(s) THEN Null
    ELSE LET m == match(s, <<Alt(Lit(lbl) \o Plus(LeaderClass \ {"."}),
                                 Rep(AllChars \ {"\n"}, 1, MaxValueLen), <<>>)>>)
         IN  IF m.found /\ Truthy(m.g1) THEN trim(m.g1)
             ELSE leaderScan(splitLines(s), lbl)

dotLeaderExtract(s, lbl) ==
    IF ~Truthy(s) THEN Null
    ELSE LET m == match(s, labelRegex(lbl))
         IN  IF m.found /\ Truthy(m.g1) THEN trim(m.g1)
             ELSE leaderScan(splitLines(s), lbl)

RECURSIVE columnScan(_, _)
columnScan(lines, lbl) ==
    IF lines = <<>> THEN Null
    ELSE LET parts == gapParts(Head(lines), ColumnSpaces)
         IN  IF Len(parts) = 2 /\ hasLabel(parts[1], lbl) THEN parts[2]
             ELSE IF Len(parts) = 2 /\ hasLabel(parts[2], lbl) THEN parts[1]
             ELSE columnScan(Tail(lines), lbl)

twoColumnExtract(s, lbl) ==
    IF ~Truthy(s) THEN Null ELSE columnScan(splitLines(s), lbl)

(***************************************************************************)
(* Template detection                                                      *)
(***************************************************************************)
HandoverKeywords == {<<"h","a","n","d","o","v","e","r"," ","s","h","e","e","t">>, <<"h","a","n","d","e","d"," ","o","v","e","r">>, <<"p","a","t","i","e","n","t"," ","c","o","n","d","i","t","i","o","n">>}
ConsentKeywords == {<<"r","e","l","a","t","i","v","e">>, <<"s","i","g","n","a","t","u","r","e">>, <<"u","h","i","d">>}

\* Tests the consent keywords first.
detectTemplate_consentFirst(fullText) ==
    LET low == toLowerCase(fullText)
    IN  IF \E k \in ConsentKeywords : includes(low, k) THEN "consent"
        ELSE IF \E k \in HandoverKeywords : includes(low, k) THEN "handover"
        ELSE "unknown"

detectTemplate(fullText) ==
    LET low == toLowerCase(fullText)
    IN  IF \E k \in HandoverKeywords : includes(low, k) THEN "handover"
        ELSE IF \E k \in ConsentKeywords : includes(low, k) THEN "consent"
        ELSE "unknown"

(***************************************************************************)
(* The patterns of the two schema parsers                                  *)
(***************************************************************************)
AlNum == Letter \cup Digit
\* \s*
Ws == Star(WhiteSpace)
\* [:\s]*
ColonWs == Star({":"} \cup WhiteSpace)
\* [^:\n]*
NotColonNl == Star(AllChars \ {":", "\n"})
\* `.` : anything but a line terminator
AnyChar == AllChars \ {"\n", "\r"}
\* [0-9]{2,3}\/[0-9]{2,3}
Pressure == Rep(Digit, 2, 3) \o Lit(<<"/">>) \o Rep(Digit, 2, 3)
\* [0-9]{n,3}\.?[0-9]?
Decimal(n) == Rep(Digit, n, 3) \o Opt({"."}) \o Opt(Digit)

\* The moreRegex lists of parseHandover's pick calls (lines 167-196).
HandoverRegexes ==
    LET name == Plus(AlNum \cup WhiteSpace \cup {",", ".", "'", "-", "/"})
        id == Plus(AlNum \cup {"-", "/"})
        date == Rep(AlNum \cup {"/", "-", ":", " "}, 3, 30)
        toComma == Plus(AllChars \ {",", "\n"})
        words == Plus(AlNum \cup {"/"} \cup WhiteSpace)
        advice == Plus(AlNum \cup {"-", ".", ",", "/"} \cup WhiteSpace)
    IN  [patient_name |->
           << <<Alt(Lit(<<"P","a","t","i","e","n","t">>) \o Ws \o Lit(<<"N","a","m","e">>)
                      \o Star({":", ".", "-"} \cup WhiteSpace), name, <<>>)>> >>,
         uhid |->
           << <<Alt(Lit(<<"U","H","I","D">>) \o NotColonNl \o ColonWs, id, <<>>)>>,
              <<Alt(Lit(<<"U","H","I","D">>) \o Ws \o Lit(<<"N","o">>) \o NotColonNl \o ColonWs, id, <<>>)>> >>,
         date_of_admission |->
           << <<Alt(Lit(<<"D","a","t","e">>) \o Ws \o Lit(<<"o","f">>) \o Ws \o Lit(<<"A","d","m","i","s","s","i","o","n">>) \o ColonWs,
                    date, <<>>)>> >>,
         date_of_surgery |->
           << <<Alt(Lit(<<"D","a","t","e">>) \o Ws \o Lit(<<"o","f">>) \o Ws \o Lit(<<"S","u","r","g","e","r","y">>) \o ColonWs,
                    date, <<>>)>> >>,
         time |->
           << <<Alt(Lit(<<"T","i","m","e">>) \o ColonWs,
                    Opt({"0", "1", "2"}) \o Rep(Digit, 1, 1) \o Opt({":"})
                      \o Opt({"0", "1", "2", "3", "4", "5"}) \o Opt(Digit), <<>>)>> >>,
         age |->
           << <<Alt(Lit(<<"A","g","e">>) \o ColonWs, Rep(Digit, 1, 3), <<>>)>> >>,
         surgery_name |->
           << <<Alt(Lit(<<"S","u","r","g","e","r","y">>) \o Ws \o Lit(<<"N","a","m","e">>) \o ColonWs,
                    Plus(AnyChar), NlOrEnd)>> >>,
         patient_condition |->
           << <<Alt(Lit(<<"P","a","t","i","e","n","t">>) \o Ws \o Lit(<<"C","o","n","d","i","t","i","o","n">>) \o ColonWs,
                    Plus(AnyChar), NlOrEnd)>> >>,
         allergies |->
           << <<Alt(Lit(<<"A","l","l","e","r","g","y">>) \o NotColonNl \o ColonWs, toComma, <<>>),
                Alt(Lit(<<"A","l","l","e","r","g","i","e","s">>) \o NotColonNl \o ColonWs, toComma, <<>>)>>,
              <<Alt(Lit(<<"I","f"," ","a","n","y">>) \o NotColonNl \o ColonWs, toComma, <<>>)>> >>,
         diabetic_diet |->
           << <<Alt(Lit(<<"D","i","a","b","e","t","i","c">>) \o NotColonNl \o ColonWs, words, <<>>)>>,
              <<Alt(Lit(<<"D","i","e","t">>) \o ColonWs, words, <<>>)>> >>,
         medication_given |->
           << <<Alt(Lit(<<"M","e","d","i","c","a","t","i","o","n">>) \o Ws \o Lit(<<"G","i","v","e","n">>) \o ColonWs, toComma, <<>>)>> >>,
         foleys_catheter |->
           << <<Alt(Lit(<<"F","o","l","e","y","s">>) \o Ws \o Lit(<<"C","a","t","h","e","t","e","r">>) \o ColonWs, words, <<>>),
                Alt(Lit(<<"F","o","l","e","y">>) \o Ws \o Lit(<<"C","a","t","h","e","t","e","r">>) \o ColonWs, words, <<>>)>> >>,
         iv_fluids |->
           << <<Alt(Lit(<<"I","V">>) \o Ws \o Lit(<<"F","l","u","i","d","s">>) \o ColonWs, words, <<>>)>> >>,
         blood_transfusion |->
           << <<Alt(Lit(<<"B","l","o","o","d">>) \o Ws \o Lit(<<"T","r","a","n","s","f","u","s","i","o","n">>) \o ColonWs, words, <<>>)>> >>,
         wound_site |->
           << <<Alt(Lit(<<"W","o","u","n","d">>) \o Ws \o Lit(<<"S","i","t","e">>) \o ColonWs, words, <<>>)>> >>,
         recommendation |->
           << <<Alt(Lit(<<"R","e","c","o","m","m","e","n","d","a","t","i","o","n">>) \o Opt({"s", "S"}) \o Lit(<<":">>) \o ColonWs,
                    advice, <<>>)>>,
              <<Alt(Lit(<<"A","n","y"," ","c","h","a","n","g","e","s">>) \o Ws \o Lit(<<"/">>) \o Ws
                      \o Lit(<<"p","l","a","n"," ","i","n"," ","t","h","e"," ","t","r","e","a","t","m","e","n","t">>) \o ColonWs, advice, <<>>)>> >>]

\* The pattern lists of the vitals group (lines 184-188).
VitalsRegexes ==
    [bp |->
       << <<Alt(Lit(<<"B","P">>) \o Star(AllChars \ Digit), Pressure, <<>>),
            Alt(Lit(<<"B","l","o","o","d"," ","P","r","e","s","s","u","r","e">>) \o Star(AllChars \ Digit), Pressure, <<>>)>>,
          <<Alt(<<>>, Lit(<<"B","P">>), ColonWs \o Pressure)>> >>,
     pulse |->
       << <<Alt(Lit(<<"P","u","l","s","e">>) \o ColonWs, Rep(Digit, 2, 3), <<>>)>>,
          <<Alt(Lit(<<"P","R">>) \o ColonWs, Rep(Digit, 2, 3), <<>>)>> >>,
     temperature |->
       << <<Alt(Lit(<<"T","e","m","p","e","r","a","t","u","r","e">>) \o ColonWs, Decimal(2), <<>>),
            Alt(Lit(<<"T","e","m","p">>) \o ColonWs, Decimal(2), <<>>)>> >>,
     rr |->
       << <<Alt(Lit(<<"R","R">>) \o ColonWs, Rep(Digit, 2, 3), <<>>)>>,
          <<Alt(Lit(<<"R","e","s","p","i","r","a","t","o","r","y"," ","R","a","t","e">>) \o ColonWs, Rep(Digit, 1, 3), <<>>)>> >>,
     spo2 |->
       << <<Alt(Lit(<<"S","P","O","2">>) \o ColonWs, Rep(Digit, 2, 3), Opt({"%"}))>>,
          <<Alt(Lit(<<"S","p","O","2">>) \o ColonWs, Rep(Digit, 2, 3), <<>>)>> >>]

\* The list vitals.bp falls back on (line 184).
BpLooseRegexes ==
    << <<Alt(Lit(<<"B","P">>) \o ColonWs, Plus(AllChars \ {",", "\n"}), <<>>)>> >>

\* The pattern lists of parseConsent (lines 206-233).
ConsentRegexes ==
    LET name == Plus(AlNum \cup WhiteSpace \cup {",", "'", "-", "/"})
        id == Plus(AlNum \cup {"-", "/"})
        phone == Rep(Digit \cup {"-", "+"} \cup WhiteSpace, 6, -1)
        sep == Rep({"/", "-", "."} \cup WhiteSpace, 1, 1)
        findings == Plus(AlNum \cup {",", "-", "(", ")", "/"} \cup WhiteSpace)
        plan == Plus(AlNum \cup {",", "-"} \cup WhiteSpace)
    IN  [patient_name |->
           << <<Alt(Lit(<<"P","a","t","i","e","n","t">>) \o Ws \o Lit(<<"N","a","m","e">>)
                      \o Plus({":", ".", "-", "_"} \cup WhiteSpace), name, <<>>)>>,
              <<Alt(Lit(<<"N","a","m","e">>) \o Plus({":"} \cup WhiteSpace), name, <<>>)>> >>,
         relative_name |->
           << <<Alt(Lit(<<"R","e","l","a","t","i","v","e","'","s">>) \o Ws \o Lit(<<"N","a","m","e">>) \o ColonWs, name, <<>>),
                Alt(Lit(<<"R","e","l","a","t","i","v","e">>) \o Ws \o Lit(<<"N","a","m","e">>) \o ColonWs, name, <<>>)>>,
              <<Alt(Lit(<<"R","e","l","a","t","i","v","e">>) \o ColonWs, name, <<>>)>> >>,
         relative_contact |->
           << <<Alt(Lit(<<"C","o","n","t","a","c","t">>) \o Ws \o Lit(<<"N","o">>) \o Opt({"."}) \o ColonWs, phone, <<>>),
                Alt(Lit(<<"C","o","n","t","a","c","t"," ","n","u","m","b","e","r">>) \o ColonWs, phone, <<>>),
                Alt(Lit(<<"C","o","n","t","a","c","t">>) \o ColonWs, phone, <<>>)>>,
              <<Alt(Lit(<<"C","o","n","t","a","c","t">>) \o Ws \o Lit(<<"N","o">>) \o ColonWs, phone, <<>>)>> >>,
         signature |->
           << <<Alt(Lit(<<"S","i","g","n","a","t","u","r","e">>) \o ColonWs, name, <<>>)>> >>,
         uhid |->
           << <<Alt(Lit(<<"U","H","I","D">>) \o NotColonNl \o ColonWs, id, <<>>)>>,
              <<Alt(Lit(<<"U","H","I","D">>) \o Ws \o Lit(<<"N","o">>) \o ColonWs, id, <<>>)>> >>,
         date |->
           << <<Alt(Lit(<<"D","a","t","e">>) \o ColonWs,
                    Opt({"0", "1", "2", "3"}) \o Rep(Digit, 1, 1) \o sep
                      \o Opt({"0", "1"}) \o Rep(Digit, 1, 1) \o sep \o Rep(Digit, 2, 4),
                    <<>>)>>,
              <<Alt(Lit(<<"D","a","t","e">>) \o Ws \o Lit(<<"o","f">>) \o Ws \o Lit(<<"A","d","m","i","s","s","i","o","n">>) \o ColonWs,
                    Plus(AlNum \cup {"/", "-"} \cup WhiteSpace), <<>>)>> >>,
         weight |->
           << <<Alt(Lit(<<"W","e","i","g","h","t">>) \o ColonWs, Decimal(2), <<>>)>> >>,
         bmi |->
           << <<Alt(Lit(<<"B","M","I">>) \o ColonWs, Decimal(1), <<>>)>> >>,
         pulse |->
           << <<Alt(Lit(<<"P","u","l","s","e">>) \o ColonWs, Rep(Digit, 2, 3), <<>>)>> >>,
         bp |->
           << <<Alt(Lit(<<"B","P">>) \o ColonWs, Pressure, <<>>),
                Alt(Lit(<<"B","l","o","o","d"," ","P","r","e","s","s","u","r","e">>) \o ColonWs, Pressure, <<>>)>> >>,
         temp |->
           << <<Alt(Lit(<<"T","e","m","p","e","r","a","t","u","r","e">>) \o ColonWs, Decimal(2), <<>>),
                Alt(Lit(<<"T","e","m","p">>) \o ColonWs, Decimal(2), <<>>)>> >>,
         rr |->
           << <<Alt(Lit(<<"R","R">>) \o ColonWs, Rep(Digit, 1, 3), <<>>)>> >>,
         spo2 |->
           << <<Alt(Lit(<<"S","P","O","2">>) \o ColonWs, Rep(Digit, 2, 3), Opt({"%"}))>> >>,
         diagnosis |->
           << <<Alt(Lit(<<"D","i","a","g","n","o","s","i","s">>) \o ColonWs, findings, <<>>)>>,
              <<Alt(Lit(<<"P","r","o","v","i","s","i","o","n","a","l"," ","D","i","a","g","n","o","s","i","s">>) \o ColonWs, findings, <<>>)>> >>,
         treatment |->
           << <<Alt(Lit(<<"T","r","e","a","t","m","e","n","t">>) \o ColonWs, plan, <<>>)>>,
              <<Alt(Lit(<<"P","l","a","n">>) \o ColonWs, plan, <<>>)>> >>]

(***************************************************************************)
(* parseHandover                                                           *)
(***************************************************************************)
\* a || b
OrElse(a, b) == IF Truthy(a) THEN a ELSE b

\* pick (lines 156-164): dot-leader, then two-column, then the regex list.
pick(full, lbl, moreRegex) ==
    LET v1 == dotLeaderExtract(full, lbl)
        v2 == twoColumnExtract(full, lbl)
        v3 == extractByRegexList(full, moreRegex)
    IN  IF Truthy(v1) THEN v1
        ELSE IF Truthy(v2) THEN v2
        ELSE IF Truthy(v3) THEN v3
        ELSE Null

\* The label of each pick call of parseHandover (lines 167-196).
HandoverLabels ==
    [patient_name |-> <<"P","a","t","i","e","n","t"," ","N","a","m","e">>,
     uhid |-> <<"U","H","I","D">>,
     date_of_admission |-> <<"D","a","t","e"," ","o","f"," ","A","d","m","i","s","s","i","o","n">>,
     date_of_surgery |-> <<"D","a","t","e"," ","o","f"," ","S","u","r","g","e","r","y">>,
     time |-> <<"T","i","m","e">>,
     age |-> <<"A","g","e">>,
     surgery_name |-> <<"S","u","r","g","e","r","y"," ","N","a","m","e">>,
     patient_condition |-> <<"P","a","t","i","e","n","t"," ","C","o","n","d","i","t","i","o","n">>,
     allergies |-> <<"A","l","l","e","r","g","i","e","s">>,
     diabetic_diet |-> <<"D","i","a","b","e","t","i","c","|","D","i","e","t">>,
     medication_given |-> <<"M","e","d","i","c","a","t","i","o","n"," ","G","i","v","e","n">>,
     foleys_catheter |-> <<"F","o","l","e","y","s"," ","C","a","t","h","e","t","e","r">>,
     iv_fluids |-> <<"I","V"," ","F","l","u","i","d","s">>,
     blood_transfusion |-> <<"B","l","o","o","d"," ","T","r","a","n","s","f","u","s","i","o","n">>,
     wound_site |-> <<"W","o","u","n","d"," ","S","i","t","e">>,
     recommendation |-> <<"R","e","c","o","m","m","e","n","d","a","t","i","o","n">>]

\* The vitals group (lines 183-190).
vitals(full) ==
    [v \in DOMAIN VitalsRegexes |->
       IF v = "bp"
       THEN OrElse(extractByRegexList(full, VitalsRegexes.bp),
                   extractByRegexList(full, BpLooseRegexes))
       ELSE extractByRegexList(full, VitalsRegexes[v])]

\* Every field but vitals is a pick of its label and its pattern list;
\* patient_condition falls back on the word "conscious".  The section
\* split of line 153 fills a local that is never read: it has no part in
\* the result.
parseHandover(fullText) ==
    LET full == normalizeText(fullText)
    IN  [f \in DOMAIN HandoverLabels \cup {"vitals"} |->
           IF f = "vitals" THEN vitals(full)
           ELSE IF f = "patient_condition"
           THEN OrElse(pick(full, HandoverLabels[f], HandoverRegexes[f]),
                       IF includes(toLowerCase(full), <<"c","o","n","s","c","i","o","u","s">>)
                       THEN <<"C","o","n","s","c","i","o","u","s"," ","/"," ","O","r","i","e","n","t","e","d">> ELSE Null)
           ELSE pick(full, HandoverLabels[f], HandoverRegexes[f])]

(***************************************************************************)
(* parseConsent                                                            *)
(***************************************************************************)
NameLineMax == 60

\* The line scan of lines 212-217: the first line that looks like a name.
RECURSIVE nameLine(_)
nameLine(lines) ==
    IF lines = <<>> THEN Null
    ELSE IF /\ includes(Head(lines), <<" ">>)
            /\ \E i \in DOMAIN Head(lines) : Head(lines)[i] \in Letter
            /\ Len(Head(lines)) < NameLineMax
            /\ ~includes(toLowerCase(Head(lines)), <<"p","a","t","i","e","n","t">>)
    THEN Head(lines)
    ELSE nameLine(Tail(lines))

\* Every field is the first capture of its pattern list; patient_name
\* falls back on the first line that looks like a name.
parseConsent(fullText) ==
    LET txt == normalizeText(fullText)
    IN  [f \in DOMAIN ConsentRegexes |->
           IF f = "patient_name" /\ ~Truthy(extractByRegexList(txt, ConsentRegexes[f]))
                                 /\ nameLine(splitLines(txt)) # Null
           THEN nameLine(splitLines(txt))
           ELSE extractByRegexList(txt, ConsentRegexes[f])]

(***************************************************************************)
(* The helpers applied to bounded inputs                                   *)
(*                                                                         *)
(* pc = "input" holds the arguments; each action is one call, whose result *)
(* goes to out (out2 for a call on the result of a call).                  *)
(***************************************************************************)
MaxTextLen == 4
MaxFragments == 2
MaxTokens == 4
MaxCells == 3

SeqsUpTo(S, n) == UNION {[1..k -> S] : k \in 0..n}

RECURSIVE Concat(_)
Concat(ss) == IF ss = <<>> THEN <<>> ELSE Head(ss) \o Concat(Tail(ss))

Idle == [first |-> [pc |-> "idle"], second |-> [pc |-> "idle"]]

NoBatch == loading = FALSE /\ results = <<>> /\ runs = Idle

\* ---- normalizeText and splitLines ------------------------------------
TextAlphabet == {"a", ".", " ", "\n", "\t", "\r", "nbsp", "bullet"}

InitText ==
    /\ pc = "input"
    /\ text \in SeqsUpTo(TextAlphabet, MaxTextLen)
    /\ label = <<>> /\ regexes = <<>> /\ out = <<>> /\ out2 = <<>>
    /\ NoBatch

\* handleFiles, line 269
Normalize ==
    /\ pc = "input"
    /\ out' = normalizeText(text)
    /\ pc' = "normalized"
    /\ UNCHANGED <<text, label, regexes, out2, loading, results, runs>>

\* parseHandover and parseConsent normalize the normalized text they are
\* given once more (lines 151 and 202).
Renormalize ==
    /\ pc = "normalized"
    /\ out2' = normalizeText(out)
    /\ pc' = "renormalized"
    /\ UNCHANGED <<text, label, regexes, out, loading, results, runs>>

SplitLines ==
    /\ pc = "input"
    /\ out' = splitLines(text)
    /\ pc' = "split"
    /\ UNCHANGED <<text, label, regexes, out2, loading, results, runs>>

NextText == Normalize \/ Renormalize \/ SplitLines

SpecText == InitText /\ [][NextText]_vars

\* C1: normalizeText is idempotent: normalizing a normalized text changes
\* nothing.
NormalizeTextIdempotent == pc = "renormalized" => out2 = out

\* The newline-free stretches of the text, by the position before each.
Cuts == {0} \cup {i \in 1..Len(text) : text[i] = "\n"}
NextCut(c) == SetMin({d \in (c + 1)..(Len(text) + 1) : d = Len(text) + 1 \/ text[d] = "\n"})
Ink(c) == {j \in (c + 1)..(NextCut(c) - 1) : text[j] \notin WhiteSpace}
SetMax(S) == CHOOSE x \in S : \A y \in S : y <= x
Inked == {c \in Cuts : Ink(c) # {}}

\* C8: splitLines returns no empty and no whitespace-only entry, and its
\* entries are the trimmed non-empty newline-separated segments of the
\* text, in the order of the text.
SplitLinesClean ==
    pc = "split" =>
        /\ \A i \in DOMAIN out : \E j \in DOMAIN out[i] : out[i][j] \notin WhiteSpace
        /\ Len(out) = Cardinality(Inked)
        /\ \A c \in Inked :
              out[Cardinality({d \in Inked : d <= c})]
                = SubSeq(text, SetMin(Ink(c)), SetMax(Ink(c)))

SplitLinesWitness ==
    /\ pc = "split"
    /\ Len(out) = 2
    /\ out[1] # out[2]
    /\ Len(text) > Len(out[1]) + Len(out[2]) + 1

\* ---- detectTemplate --------------------------------------------------
Fragments ==
    {<<"H","a","n","d","o","v","e","r"," ","S","h","e","e","t">>, <<"h","a","n","d","e","d"," ","o","v","e","r">>, <<"P","a","t","i","e","n","t"," ","C","o","n","d","i","t","i","o","n">>, <<"R","e","l","a","t","i","v","e">>,
     <<"s","i","g","n","a","t","u","r","e">>, <<"U","H","I","D">>, <<"h","a","n","d">>, <<"o","v","e","r"," ","s","h","e","e","t">>, <<"x">>, <<" ">>}

InitDetect ==
    /\ pc = "input"
    /\ text \in {Concat(fs) : fs \in SeqsUpTo(Fragments, MaxFragments)}
    /\ label = <<>> /\ regexes = <<>> /\ out = <<>> /\ out2 = <<>>
    /\ NoBatch

DetectTemplate ==
    /\ pc = "input"
    /\ out' = detectTemplate(text)
    /\ pc' = "detected"
    /\ UNCHANGED <<text, label, regexes, out2, loading, results, runs>>

SpecDetect == InitDetect /\ [][DetectTemplate]_vars

Mentions(K) ==
    \E i \in 1..Len(text) : \E j \in i..Len(text) : toLowerCase(SubSeq(text, i, j)) \in K

\* C2: detectTemplate answers handover for a text with a handover keyword,
\* whatever else it contains; consent for a text with a consent keyword and
\* no handover keyword; unknown for any other text.
DetectTemplateDecision ==
    pc = "detected" =>
        /\ Mentions(HandoverKeywords) => out = "handover"
        /\ ~Mentions(HandoverKeywords) /\ Mentions(ConsentKeywords) => out = "consent"
        /\ ~Mentions(HandoverKeywords) /\ ~Mentions(ConsentKeywords) => out = "unknown"

DetectTemplateWitness ==
    /\ pc = "detected"
    /\ out = "handover"
    /\ Mentions(ConsentKeywords)

\* ---- extractByRegexList ----------------------------------------------
Tokens == {<<"P","u","l","s","e">>, <<"P","R">>, <<"R","R">>, <<":"," ">>, <<"7","2">>, <<"1","2","0">>, <<"\n">>}

PatternLists ==
    {VitalsRegexes.pulse, VitalsRegexes.rr, ConsentRegexes.rr, ConsentRegexes.pulse}

InitRegexList ==
    /\ pc = "input"
    /\ text \in {Concat(ts) : ts \in SeqsUpTo(Tokens, MaxTokens)}
    /\ regexes \in PatternLists
    /\ label = <<>> /\ out = <<>> /\ out2 = <<>>
    /\ NoBatch

ExtractByRegexList ==
    /\ pc = "input"
    /\ out' = extractByRegexList(text, regexes)
    /\ pc' = "extracted"
    /\ UNCHANGED <<text, label, regexes, out2, loading, results, runs>>

SpecRegexList == InitRegexList /\ [][ExtractByRegexList]_vars

Matching == {i \in 1..Len(regexes) : match(text, regexes[i]).found}

\* C6: extractByRegexList returns the trimmed group 1 of the earliest
\* pattern of the list that matches the text, and null only when no
\* pattern matches.
FirstMatchPriority ==
    pc = "extracted" =>
        IF Matching = {} THEN out = Null
        ELSE out = trim(match(text, regexes[SetMin(Matching)]).g1)

FirstMatchWitness ==
    /\ pc = "extracted"
    /\ Matching = {1, 2}
    /\ match(text, regexes[2]).index < match(text, regexes[1]).index
    /\ match(text, regexes[2]).g1 # match(text, regexes[1]).g1
    /\ out = match(text, regexes[1]).g1

\* ---- dotLeaderExtract and twoColumnExtract ---------------------------
Cells == {<<"A","g","e">>, <<"A","g","e","s">>, <<"a">>, <<"-","a">>}
Gaps == {<<".",".",".",".">>, <<" ",".",".","."," ">>, <<" "," "," "," ">>}
Margins == {<<>>, <<"b">>}

RECURSIVE LinesOf(_)
LinesOf(n) ==
    IF n = 1 THEN Cells
    ELSE {l \o g \o c : l \in LinesOf(n - 1), g \in Gaps, c \in Cells}

LeaderTexts ==
    {(IF above = <<>> THEN <<>> ELSE above \o <<"\n">>) \o l
        \o (IF below = <<>> THEN <<>> ELSE <<"\n">> \o below) :
       above \in Margins, below \in Margins,
       l \in UNION {LinesOf(n) : n \in 1..MaxCells}}

InitLeader ==
    /\ pc = "input"
    /\ text \in LeaderTexts
    /\ label = <<"A","g","e">>
    /\ regexes = <<>> /\ out = <<>> /\ out2 = <<>>
    /\ NoBatch

DotLeaderExtract ==
    /\ pc = "input"
    /\ out' = dotLeaderExtract(text, label)
    /\ pc' = "dotLeader"
    /\ UNCHANGED <<text, label, regexes, out2, loading, results, runs>>

TwoColumnExtract ==
    /\ pc = "input"
    /\ out' = twoColumnExtract(text, label)
    /\ pc' = "twoColumn"
    /\ UNCHANGED <<text, label, regexes, out2, loading, results, runs>>

NextLeader == DotLeaderExtract \/ TwoColumnExtract

SpecLeader == InitLeader /\ [][NextLeader]_vars

\* Where the label occurs in the text, case folded.
Occurrences ==
    {i \in 1..(Len(text) - Len(label) + 1) :
        toLowerCase(SubSeq(text, i, i + Len(label) - 1)) = toLowerCase(label)}
LabelAt == SetMin(Occurrences)
AfterLabel == Drop(text, LabelAt + Len(label) - 1)
\* The filler after the label: periods and spaces.
Filler == SubSeq(AfterLabel, 1, RunLen(AfterLabel, {".", " "}))
\* The rest of the label's line after the filler.
Value ==
    LET rest == Drop(AfterLabel, Len(Filler))
    IN  SubSeq(rest, 1, RunLen(rest, AllChars \ {"\n"}))

\* The label occurs once, at the start of a line `L <filler> V`.
LabelFillerValue ==
    /\ Cardinality(Occurrences) = 1
    /\ LabelAt = 1 \/ text[LabelAt - 1] = "\n"
    /\ "." \in Range(Filler) \/ Len(Filler) >= LeaderSpaces
    /\ Value # <<>>
    /\ Len(Value) <= MaxValueLen

\* C7 as claimed: on a line `L <filler> V` dotLeaderExtract returns V.
LeaderReturnsValue ==
    pc = "dotLeader" /\ LabelFillerValue => out = trim(Value)

\* C7, amended: on a line `L <filler> V` whose V does not begin with a
\* period, a colon, an underscore, a hyphen or white space,
\* dotLeaderExtract returns V.
LeaderReturnsPlainValue ==
    pc = "dotLeader" /\ LabelFillerValue /\ Value[1] \notin LeaderClass
        => out = trim(Value)

LeaderValueWitness ==
    /\ pc = "dotLeader"
    /\ LabelFillerValue
    /\ Value[1] \notin LeaderClass
    /\ "." \in Range(Filler)
    /\ Len(Value) > 1
    /\ out = Value

DirectFails ==
    LET m == match(text, labelRegex(label))
    IN  ~(m.found /\ Truthy(m.g1))

\* C9: when the direct pattern fails, dotLeaderExtract returns a value only
\* for a line with the label that splits into exactly two parts, and the
\* value is the part without the label.
FallbackExactlyTwoParts ==
    pc = "dotLeader" /\ DirectFails /\ out # Null =>
        \E i \in DOMAIN splitLines(text) :
            LET line == splitLines(text)[i]
                parts == gapParts(line, LeaderSpaces)
            IN  /\ hasLabel(line, label)
                /\ Len(parts) = 2
                /\ \E k \in {1, 2} :
                      /\ hasLabel(parts[k], label)
                      /\ ~hasLabel(parts[3 - k], label)
                      /\ out = parts[3 - k]

(***************************************************************************)
(* handleFiles                                                             *)
(*                                                                         *)
(* A file is what the collaborators make of it: `ok` says whether pdf.js   *)
(* opens and renders it (a PDF) or FileReader and the image decoder read   *)
(* it (an image), `pages` holds what Tesseract returns for each page image *)
(* (OcrFails: the recognizer rejects).  An invocation of handleFiles is    *)
(* suspended at each await; its locals (files, the loop positions,         *)
(* fullText, outResults) are the fields of its entry in runs.  The three   *)
(* awaits of ocrImage touch no state of the component and are one step.    *)
(* The file input stays enabled while a batch is processed, so a second    *)
(* invocation can start while the first is suspended.                      *)
(***************************************************************************)
MaxFiles == 2

OcrFails == <<"THROW">>

Pdf == "application/pdf"
Png == "image/png"

FileSet ==
    {[name |-> "corrupt.pdf", type |-> Pdf, ok |-> FALSE, pages |-> <<>>],
     [name |-> "handover.pdf", type |-> Pdf, ok |-> TRUE,
      pages |-> <<<<"H","a","n","d","e","d"," ","o","v","e","r","\t","A","g","e",":"," ","4","2">>, <<"P","u","l","s","e",":"," ","7","8">>>>],
     [name |-> "smudge.pdf", type |-> Pdf, ok |-> TRUE, pages |-> <<OcrFails>>],
     [name |-> "consent.png", type |-> Png, ok |-> TRUE, pages |-> <<<<"U","H","I","D",":"," ","7","7","\n","B","P"," ","1","2","0","/","8","0">>>>],
     [name |-> "other.png", type |-> Png, ok |-> TRUE, pages |-> <<<<"P","u","l","s","e",":"," ","7","8">>>>],
     [name |-> "blank.png", type |-> Png, ok |-> TRUE, pages |-> << <<>> >>],
     [name |-> "broken.png", type |-> Png, ok |-> FALSE, pages |-> <<>>]}

Batches == SeqsUpTo(FileSet, MaxFiles) \ {<<>>}

Invocations == {"first", "second"}

\* Lines 273-280, with the unknown branch left at the initial `{}`.
fieldsFor_unknownEmpty(template, fullText) ==
    IF template = "handover" THEN parseHandover(fullText)
    ELSE IF template = "consent" THEN parseConsent(fullText)
    ELSE <<>>

\* Lines 273-280.
fieldsFor(template, fullText) ==
    IF template = "handover" THEN parseHandover(fullText)
    ELSE IF template = "consent" THEN parseConsent(fullText)
    ELSE [handover |-> parseHandover(fullText), consent |-> parseConsent(fullText)]

\* Lines 269-287: the result of a document whose pages are all read.
extracted(fileName, rawText) ==
    LET fullText == normalizeText(rawText)
        template == detectTemplate(fullText)
    IN  [fileName |-> fileName, template |-> template,
         fields |-> fieldsFor(template, fullText), text |-> fullText]

\* Lines 260 and 290.
failed(fileName, err) == [fileName |-> fileName, error |-> err]

\* An error entry ends the loop.
pushed_abortOnError(run, entry) ==
    LET outResults == Append(run.outResults, entry)
    IN  IF run.idx < Len(run.files) /\ "error" \notin DOMAIN entry
        THEN [pc |-> "convert", files |-> run.files, idx |-> run.idx + 1, page |-> 0,
              fullText |-> <<>>, outResults |-> outResults]
        ELSE [pc |-> "done", files |-> run.files, idx |-> run.idx, page |-> 0,
              fullText |-> <<>>, outResults |-> outResults]

\* outResults.push(entry), then the next iteration of the loop over the
\* files up to its first await, or the end of the loop.
pushed(run, entry) ==
    LET outResults == Append(run.outResults, entry)
    IN  IF run.idx < Len(run.files)
        THEN [pc |-> "convert", files |-> run.files, idx |-> run.idx + 1, page |-> 0,
              fullText |-> <<>>, outResults |-> outResults]
        ELSE [pc |-> "done", files |-> run.files, idx |-> run.idx, page |-> 0,
              fullText |-> <<>>, outResults |-> outResults]

\* The step of an invocation that pushes an entry; after the last file
\* lines 294-295 follow without a further await.
Push(r, entry) ==
    LET run == pushed(runs[r], entry)
    IN  /\ runs' = [runs EXCEPT ![r] = run]
        /\ IF run.pc = "done"
           THEN results' = run.outResults /\ loading' = FALSE
           ELSE UNCHANGED <<results, loading>>

\* Lines 239-248: a selection of files starts an invocation, which runs to
\* its first await.  (An empty selection returns at line 240 and changes
\* nothing.)
HandleFiles(r, files) ==
    /\ runs[r].pc = "idle"
    /\ files # <<>>
    /\ loading' = TRUE
    /\ runs' = [runs EXCEPT ![r] =
                  [pc |-> "convert", files |-> files, idx |-> 1, page |-> 0,
                   fullText |-> <<>>, outResults |-> <<>>]]
    /\ UNCHANGED <<pc, text, label, regexes, out, out2, results>>

\* Lines 246-264: the page images of the current file arrive, or the read
\* of an image file rejects.  convertPdfToImages answers [] for a PDF it
\* cannot open or render (lines 65-68).
ImagesReady(r) ==
    LET run == runs[r]
        file == run.files[run.idx]
        images == IF file.ok THEN file.pages ELSE <<>>
    IN  /\ run.pc = "convert"
        /\ IF file.type # Pdf /\ ~file.ok
           THEN Push(r, failed(file.name, "Error: read"))
           ELSE IF images = <<>>
           THEN Push(r, failed(file.name, "no images"))
           ELSE /\ runs' = [runs EXCEPT ![r].pc = "ocr", ![r].page = 1]
                /\ UNCHANGED <<results, loading>>
        /\ UNCHANGED <<pc, text, label, regexes, out, out2>>

\* Lines 265-291: the text of the current page arrives, or the recognizer
\* rejects.
PageRecognized(r) ==
    LET run == runs[r]
        file == run.files[run.idx]
        pageText == file.pages[run.page]
        fullText == run.fullText \o <<"\n">> \o pageText
    IN  /\ run.pc = "ocr"
        /\ IF pageText = OcrFails
           THEN Push(r, failed(file.name, "Error: ocr"))
           ELSE IF run.page < Len(file.pages)
           THEN /\ runs' = [runs EXCEPT ![r].page = run.page + 1,
                                        ![r].fullText = fullText]
                /\ UNCHANGED <<results, loading>>
           ELSE Push(r, extracted(file.name, fullText))
        /\ UNCHANGED <<pc, text, label, regexes, out, out2>>

InitBatch ==
    /\ pc = "batch"
    /\ text = <<>> /\ label = <<>> /\ regexes = <<>> /\ out = <<>> /\ out2 = <<>>
    /\ loading = FALSE
    /\ results = <<>>
    /\ runs = Idle

\* One invocation, any batch.
NextBatch ==
    \/ \E files \in Batches : HandleFiles("first", files)
    \/ ImagesReady("first")
    \/ PageRecognized("first")

SpecBatch == InitBatch /\ [][NextBatch]_vars

\* Two invocations, of one file each.
NextOverlap ==
    \E r \in Invocations :
        \/ \E file \in FileSet : HandleFiles(r, <<file>>)
        \/ ImagesReady(r)
        \/ PageRecognized(r)

Spec == InitBatch /\ [][NextOverlap]_vars

Started == {r \in Invocations : runs[r].pc # "idle"}
Finished == {r \in Invocations : runs[r].pc = "done"}

\* The entries pushed so far, each with the file it belongs to.
Pushed ==
    UNION {{[entry |-> runs[r].outResults[i], file |-> runs[r].files[i]] :
              i \in 1..Len(runs[r].outResults)} : r \in Started}

HandoverFields ==
    {"patient_name", "uhid", "date_of_admission", "date_of_surgery", "time", "age",
     "surgery_name", "patient_condition", "allergies", "diabetic_diet",
     "medication_given", "vitals", "foleys_catheter", "iv_fluids", "blood_transfusion",
     "wound_site", "recommendation"}
VitalsFields == {"bp", "pulse", "temperature", "rr", "spo2"}
ConsentFields ==
    {"patient_name", "relative_name", "relative_contact", "signature", "uhid", "date",
     "weight", "bmi", "pulse", "bp", "temp", "rr", "spo2", "diagnosis", "treatment"}

IsHandoverMap(m, fullText) ==
    /\ DOMAIN m = HandoverFields
    /\ DOMAIN m.vitals = VitalsFields
    /\ m = parseHandover(fullText)
IsConsentMap(m, fullText) ==
    /\ DOMAIN m = ConsentFields
    /\ m = parseConsent(fullText)

\* C3: the fields of a document classified unknown are exactly the two
\* keys handover and consent, each with the complete field map of its
\* parser; the fields of a handover or consent document are the field map
\* of the matching parser alone.
FieldsByTemplate ==
    \A p \in Pushed :
        "template" \in DOMAIN p.entry =>
            LET e == p.entry
            IN  /\ e.template \in {"handover", "consent", "unknown"}
                /\ e.template = "unknown" =>
                      /\ DOMAIN e.fields = {"handover", "consent"}
                      /\ IsHandoverMap(e.fields.handover, e.text)
                      /\ IsConsentMap(e.fields.consent, e.text)
                /\ e.template = "handover" => IsHandoverMap(e.fields, e.text)
                /\ e.template = "consent" => IsConsentMap(e.fields, e.text)

FieldsByTemplateWitness ==
    \E p \in Pushed :
        /\ "template" \in DOMAIN p.entry
        /\ p.entry.template = "unknown"
        /\ p.entry.fields.handover.vitals.pulse = <<"7","8">>
        /\ p.entry.fields.handover.age = Null
        /\ p.entry.fields.consent.pulse = <<"7","8">>

\* The file yields no page image, or reading or recognizing it throws.
Unusable(f) == ~f.ok \/ f.pages = <<>> \/ OcrFails \in Range(f.pages)

\* C4: every file of a batch gets its entry, in the order of the batch: an
\* entry with an error marker and neither template nor fields for a file
\* that is unusable, an extraction for any other; when the invocation ends,
\* results is the list of these entries.
BatchIsolation ==
    /\ \A r \in Started :
          LET run == runs[r]
          IN  /\ Len(run.outResults)
                   = IF run.pc = "done" THEN Len(run.files) ELSE run.idx - 1
              /\ \A i \in DOMAIN run.outResults :
                    /\ run.outResults[i].fileName = run.files[i].name
                    /\ Unusable(run.files[i])
                          => DOMAIN run.outResults[i] = {"fileName", "error"}
                    /\ ~Unusable(run.files[i])
                          => DOMAIN run.outResults[i]
                                = {"fileName", "template", "fields", "text"}
    /\ IF Finished = {} THEN results = <<>>
       ELSE \E r \in Finished : results = runs[r].outResults

BatchIsolationWitness ==
    \E r \in Finished :
        /\ Len(runs[r].files) = 2
        /\ "error" \in DOMAIN runs[r].outResults[1]
        /\ "template" \in DOMAIN runs[r].outResults[2]
        /\ results = runs[r].outResults

\* Every page of the file is read and none has any text.
NoText(f) ==
    /\ ~Unusable(f)
    /\ normalizeText(Concat(f.pages)) = <<>>

\* C5: a document with no extractable text gets an entry with an error
\* marker instead of a field map.
NoTextIsError ==
    \A p \in Pushed :
        NoText(p.file) => "error" \in DOMAIN p.entry /\ "fields" \notin DOMAIN p.entry

\* C10: whenever loading is false, no batch is being processed.
NoOverlap ==
    ~loading => \A r \in Invocations : runs[r].pc \in {"idle", "done"}

====
